---- MODULE Spec2Model ----
(***************************************************************************)
(* Model of BackendApp/server.js: an HTTP backend that keeps its users and *)
(* its content in Google Sheets.  The spreadsheet is a grid of text cells; *)
(* every request handler is an asynchronous task that is suspended at each *)
(* spreadsheet call, so one step of the model is one spreadsheet call      *)
(* together with the handler code that runs up to the next call.           *)
(***************************************************************************)
EXTENDS Integers, Sequences, FiniteSets, TLC

(***************************************************************************)
(* Bounds of the model.                                                    *)
(***************************************************************************)
MaxRequests == 2     \* requests that arrive in a run with interleaving
MaxSeqRequests == 4  \* requests that arrive in a run of one request at a time
MaxClock == 1        \* the wall clock runs over 0 .. MaxClock
MaxUpdateCalls == 2  \* direct calls of updateSheetRowByIndex in a run

\* The requests in flight together: two asynchronous tasks.
Slots == {1, 2}

(***************************************************************************)
(* JavaScript values that are not strings.                                 *)
(***************************************************************************)
JsUndefined == "<undefined>"
JsNull == "<null>"

Falsy(v) == v = "" \/ v = JsUndefined \/ v = JsNull

Max(a, b) == IF a >= b THEN a ELSE b

Range(f) == {f[i] : i \in DOMAIN f}

(***************************************************************************)
(* Program constants.                                                      *)
(***************************************************************************)
USERS_SHEET_NAME == "Usuarios"
EBOOKS_SHEET_NAME == "Ebooks"
CLASSES_SHEET_NAME == "Clases"
PLANS_SHEET_NAME == "PlanesNutricionales"

ContentSheets == {EBOOKS_SHEET_NAME, CLASSES_SHEET_NAME, PLANS_SHEET_NAME}

usersHeader == <<"userId", "email", "passwordHash", "membership", "createdAt", "updatedAt">>

(***************************************************************************)
(* Inputs of the requests.                                                 *)
(***************************************************************************)
Emails == {"a@x.com", "b@x.com"}
RegisterPasswords == {"pw1"}
Passwords == {"pw1", "pw2"}
Memberships == {"free", "premium", "Premium"}

\* String.prototype.toUpperCase / toLowerCase on the strings of the model.
toUpperCase(s) ==
    CASE s \in {"true", "True", "TRUE"} -> "TRUE"
      [] s \in {"false", "FALSE"} -> "FALSE"
      [] s \in {"free", "FREE"} -> "FREE"
      [] s \in {"premium", "Premium", "PREMIUM"} -> "PREMIUM"
      [] OTHER -> s

toLowerCase(s) ==
    CASE s \in {"true", "True", "TRUE"} -> "true"
      [] s \in {"false", "FALSE"} -> "false"
      [] s \in {"free", "FREE"} -> "free"
      [] s \in {"premium", "Premium", "PREMIUM"} -> "premium"
      [] OTHER -> s

\* bcrypt.hash(password, 10): an opaque digest of the password.
bcryptHash(password) ==
    CASE password = "pw1" -> "$2a$10$pw1"
      [] password = "pw2" -> "$2a$10$pw2"
      [] OTHER -> "$2a$10$"

\* bcrypt.compare(password, hash) for a hash that is a string.
bcryptCompare(password, hash) == hash = bcryptHash(password)

\* new Date().toISOString() at clock value t.
TimeNames == <<"t0", "t1", "t2", "t3", "t4">>
toISOString(t) == TimeNames[t + 1]

\* uuidv4(): an identifier that occurs nowhere else.
IdNames == <<"u1", "u2", "u3", "u4", "u5", "u6", "u7", "u8">>
uuidv4(used) ==
    IdNames[CHOOSE i \in 1 .. Len(IdNames) :
                /\ IdNames[i] \notin used
                /\ \A j \in 1 .. (i - 1) : IdNames[j] \in used]

(***************************************************************************)
(* The spreadsheet service.  A sheet is a sequence of rows, a row a        *)
(* sequence of cells; trailing empty cells of a row are not stored, and    *)
(* the service leaves them out of what it returns.                         *)
(***************************************************************************)
RECURSIVE Trim(_)
Trim(row) ==
    IF Len(row) > 0 /\ row[Len(row)] = ""
    THEN Trim(SubSeq(row, 1, Len(row) - 1))
    ELSE row

\* spreadsheets.values.get, range = the whole sheet: response.data.values,
\* which is undefined (here <<>>) for a sheet without any value.
valuesGetSheet(grid) == grid

\* spreadsheets.values.get, range = sheet!1:1: data.values is undefined when
\* row 1 holds no value.
Row1Undefined(grid) == Len(grid) = 0 \/ grid[1] = <<>>
valuesGetRow1(grid) == IF Row1Undefined(grid) THEN <<>> ELSE <<grid[1]>>

\* spreadsheets.values.get, range = sheet!A<rowIndex>:<column n><rowIndex>.
valuesGetRow(grid, rowIndex, n) ==
    LET stored == IF rowIndex <= Len(grid) THEN grid[rowIndex] ELSE <<>>
        cut == Trim(SubSeq(stored, 1, IF Len(stored) < n THEN Len(stored) ELSE n))
    IN  IF cut = <<>> THEN <<>> ELSE <<cut>>

\* Mutant: the append refuses a row whose second cell the sheet already holds.
valuesAppendUnique(grid, rowData) ==
    IF \E k \in 2 .. Len(grid) : Len(grid[k]) >= 2 /\ grid[k][2] = rowData[2]
    THEN grid
    ELSE Append(grid, rowData)

\* spreadsheets.values.append, range = the sheet: the row goes below the last
\* row that holds a value.
valuesAppend(grid, rowData) == Append(grid, Trim(rowData))

\* spreadsheets.values.update of one row written from column A: the cells given
\* are overwritten, a null cell is skipped, cells to the right are kept.
valuesUpdate(grid, rowIndex, values) ==
    LET stored == IF rowIndex <= Len(grid) THEN grid[rowIndex] ELSE <<>>
        written == [j \in 1 .. Max(Len(stored), Len(values)) |->
                       IF j <= Len(values) /\ values[j] # JsNull THEN values[j]
                       ELSE IF j <= Len(stored) THEN stored[j] ELSE ""]
    IN  [i \in 1 .. Max(Len(grid), rowIndex) |->
            IF i = rowIndex THEN Trim(written)
            ELSE IF i <= Len(grid) THEN grid[i] ELSE <<>>]

(***************************************************************************)
(* getSheetData: the rows below the header as objects keyed by the header. *)
(***************************************************************************)
rowObject(header, row) ==
    [key \in Range(header) |->
        LET index == CHOOSE i \in 1 .. Len(header) :
                        /\ header[i] = key
                        /\ \A j \in (i + 1) .. Len(header) : header[j] # key
        IN  IF index <= Len(row) THEN row[index] ELSE JsUndefined]

getSheetData(values) ==
    LET rows == values
    IN  IF Len(rows) = 1 /\ \A i \in 1 .. Len(rows[1]) : Falsy(rows[1][i]) THEN <<>>
        ELSE IF Len(rows) > 0 /\ Len(rows[1]) = 0 THEN <<>>
        ELSE IF Len(rows) > 0
             THEN [i \in 1 .. (Len(rows) - 1) |-> rowObject(rows[1], rows[i + 1])]
             ELSE <<>>

\* rows[i][columnName]
Field(obj, key) == IF key \in DOMAIN obj THEN obj[key] ELSE JsUndefined

(***************************************************************************)
(* findSheetRow, after its two reads: rows is what getSheetData returned   *)
(* and headerRow is data.values[0] of the read of row 1.  The result is    *)
(* <<>> for null and <<[rowData, rowIndex]>> for a match.                  *)
(***************************************************************************)
\* Mutant: the row index is one too small.
RowIndexOffByOne(i) == i

RowIndexOf(i) == i + 1     \* i counts the data rows from 1; JavaScript's i + 2

\* Mutant: the scan starts at the second data row.
findSheetRowFromSecond(rows, headerRow, columnName, searchValue) ==
    LET hits == {i \in 2 .. Len(rows) : Field(rows[i], columnName) = searchValue}
    IN  IF headerRow = <<>> THEN <<>>
        ELSE IF hits = {} THEN <<>>
        ELSE LET i == CHOOSE h \in hits : \A g \in hits : h <= g
             IN  <<[rowData |-> rows[i], rowIndex |-> RowIndexOf(i)]>>

findSheetRow(rows, headerRow, columnName, searchValue) ==
    LET hits == {i \in 1 .. Len(rows) : Field(rows[i], columnName) = searchValue}
    IN  IF headerRow = <<>> THEN <<>>
        ELSE IF hits = {} THEN <<>>
        ELSE LET i == CHOOSE h \in hits : \A g \in hits : h <= g
             IN  <<[rowData |-> rows[i], rowIndex |-> RowIndexOf(i)]>>

(***************************************************************************)
(* updateSheetRowByIndex, the merge of newData into the row read.  newData *)
(* is a sequence of <<key, value>> pairs in the object's key order.        *)
(***************************************************************************)
indexOf(header, key) ==
    IF key \in Range(header)
    THEN CHOOSE i \in 1 .. Len(header) :
            header[i] = key /\ \A j \in 1 .. (i - 1) : header[j] # key
    ELSE 0

\* Mutant: the value goes to the cell to the right of the column found.
setCellNext(currentRow, colIndex, value) ==
    [j \in 1 .. Max(Len(currentRow), colIndex + 1) |->
        IF j = colIndex + 1 THEN value
        ELSE IF j <= Len(currentRow) THEN currentRow[j] ELSE JsNull]

\* currentRow[colIndex] = value; cells skipped over are holes, sent as null.
setCell(currentRow, colIndex, value) ==
    [j \in 1 .. Max(Len(currentRow), colIndex) |->
        IF j = colIndex THEN value
        ELSE IF j <= Len(currentRow) THEN currentRow[j] ELSE JsNull]

\* Mutant: the merge starts from a blank row whatever the read returned.
currentRowBlank(values, n) == [j \in 1 .. n |-> ""]

\* data.values && data.values[0] ? data.values[0] : new Array(n).fill('')
currentRowOf(values, n) ==
    IF values # <<>> THEN values[1] ELSE [j \in 1 .. n |-> ""]

RECURSIVE applyNewData(_, _, _)
applyNewData(header, currentRow, newData) ==
    IF newData = <<>> THEN currentRow
    ELSE LET key == newData[1][1]
             colIndex == indexOf(header, key)
             next == IF colIndex # 0 THEN setCell(currentRow, colIndex, newData[1][2])
                     ELSE currentRow
         IN  applyNewData(header, next, Tail(newData))

(***************************************************************************)
(* getFilteredContent, after its read: allContent is what getSheetData     *)
(* returned.  userMembership.toLowerCase() throws a TypeError when the     *)
(* membership is undefined; it is evaluated only for a premium item.       *)
(***************************************************************************)
isPremiumItem(item) ==
    /\ ~Falsy(Field(item, "premiumAccess"))
    /\ toUpperCase(Field(item, "premiumAccess")) = "TRUE"

filterThrows(allContent, userMembership) ==
    /\ userMembership \in {JsUndefined, JsNull}
    /\ \E i \in 1 .. Len(allContent) : isPremiumItem(allContent[i])

filterKeeps(item, userMembership) ==
    IF isPremiumItem(item)
    THEN toLowerCase(userMembership) = "premium"
    ELSE TRUE

redact(item) ==
    [key \in DOMAIN item \cup {"fileURL", "videoURL"} |->
        IF key \in {"fileURL", "videoURL"} THEN JsNull ELSE item[key]]

mapItem(item, userMembership) ==
    IF isPremiumItem(item) /\ toLowerCase(userMembership) # "premium"
    THEN redact(item)
    ELSE item

\* Mutant: the content is returned as read, without the membership filter.
getUnfilteredContent(allContent, userMembership) == allContent

getFilteredContent(allContent, userMembership) ==
    LET kept == SelectSeq(allContent, LAMBDA item : filterKeeps(item, userMembership))
    IN  [i \in 1 .. Len(kept) |-> mapItem(kept[i], userMembership)]

(***************************************************************************)
(* State of the program.                                                   *)
(***************************************************************************)
VARIABLES
    users,      \* the Users sheet
    content,    \* the three content sheets, by sheet name (never written)
    sheets,     \* TRUE when the global Sheets client is set
    server,     \* "starting", "authorizing", "listening" or "exited"
    req,        \* per slot: the request in flight and its locals
    last,       \* the request answered by the latest step, with its response
    arrived,    \* number of requests that have arrived
    tokens,     \* user ids for which a token signed with JWT_SECRET exists
    upgraded,   \* history: the users whose latest membership write is an
                \* update to 'premium' that was answered 200
    headerChecked,  \* history: a registration has completed its header check
    authorizations, \* history: number of calls of auth.authorize()
    authFailed,     \* history: the authorization at start-up was rejected
    clock       \* the wall clock

vars == <<users, content, sheets, server, req, last, arrived, tokens, upgraded, headerChecked,
         authorizations, authFailed, clock>>

\* Sheets the program may be started on.
seedUser == <<"u0", "a@x.com", bcryptHash("pw1"), "free">>
narrowHeader == <<"userId", "email", "passwordHash", "membership">>
wideHeader == usersHeader \o <<"notes">>

InitialUsers ==
    { <<>>,
      <<usersHeader>>,
      <<usersHeader, seedUser>>,
      <<narrowHeader, seedUser>>,
      <<wideHeader, seedUser>> }

contentHeader == <<"title", "premiumAccess", "fileURL", "videoURL">>

InitialContent ==
    { [n \in ContentSheets |->
         CASE n = EBOOKS_SHEET_NAME ->
                <<contentHeader, <<"Libro", "FALSE", "f1">>, <<"Libro Pro", "TRUE", "f2">>>>
           [] n = CLASSES_SHEET_NAME ->
                <<contentHeader, <<"Clase Pro", "true", "", "v1">>>>
           [] OTHER -> <<>>] }

NoRequest ==
    [kind |-> "none", pc |-> "idle", email |-> "", password |-> "", userId |-> "",
     newMembership |-> "", sheetName |-> "", rows |-> <<>>, userFound |-> <<>>,
     header |-> <<>>, currentRow |-> <<>>, now |-> "", before |-> <<>>,
     rowIndex |-> 0, patch |-> <<>>, readRow |-> <<>>, rowBeforeWrite |-> <<>>,
     searched |-> FALSE, sawUpgrade |-> FALSE,
     status |-> 0, message |-> "", body |-> <<>>, err |-> ""]

Init ==
    /\ users \in InitialUsers
    /\ content \in InitialContent
    /\ sheets = FALSE
    /\ server = "starting"
    /\ req = [s \in Slots |-> NoRequest]
    /\ last = NoRequest
    /\ arrived = 0
    /\ tokens = {users[i][1] : i \in 2 .. Len(users)}
    /\ upgraded = {}
    /\ headerChecked = FALSE
    /\ authorizations = 0
    /\ authFailed = FALSE
    /\ clock = 0

(***************************************************************************)
(* Start-up: authenticateGoogleSheets().then(() => app.listen(...)).       *)
(***************************************************************************)
\* Mutant: authenticateGoogleSheets without its 'if (sheets) return'.
authenticateGoogleSheetsAlways(handle, n) == n + 1

\* The number of auth.authorize() calls after a call of authenticateGoogleSheets
\* that finds the client in state handle, n being the number before it.
authenticateGoogleSheets(handle, n) == IF handle THEN n ELSE n + 1

StartAuthorize ==
    /\ server = "starting" /\ ~sheets
    /\ server' = "authorizing"
    /\ authorizations' = authenticateGoogleSheets(sheets, authorizations)
    /\ last' = NoRequest
    /\ UNCHANGED <<users, content, sheets, req, arrived, tokens, upgraded, headerChecked,
                   authFailed, clock>>

AuthorizeResolves ==
    /\ server = "authorizing"
    /\ sheets' = TRUE
    /\ server' = "listening"
    /\ last' = NoRequest
    /\ UNCHANGED <<users, content, req, arrived, tokens, upgraded, headerChecked,
                   authorizations, authFailed, clock>>

\* Mutant: the rejection is swallowed and the server listens all the same.
AuthorizeRejectsListens ==
    /\ server = "authorizing"
    /\ server' = "listening"
    /\ authFailed' = TRUE
    /\ last' = NoRequest
    /\ UNCHANGED <<users, content, sheets, req, arrived, tokens, upgraded, headerChecked,
                   authorizations, clock>>

AuthorizeRejects ==
    /\ server = "authorizing"
    /\ server' = "exited"
    /\ authFailed' = TRUE
    /\ last' = NoRequest
    /\ UNCHANGED <<users, content, sheets, req, arrived, tokens, upgraded, headerChecked,
                   authorizations, clock>>

\* new Date(): the clock is observed only here, so it advances here, by any
\* amount of time that has passed since it was last read.
Times == clock .. MaxClock

(***************************************************************************)
(* Responses.                                                              *)
(***************************************************************************)
Free(s) == req[s].pc = "idle"

\* res.status(status).json({message}) / .send(message): the request is over.
Respond(r, status, message, body, err) ==
    [r EXCEPT !.pc = "done", !.status = status, !.message = message, !.body = body,
              !.err = err, !.rows = <<>>, !.currentRow = <<>>]

\* The catch block a throw at r's place lands in.
Catch(r, err) ==
    CASE r.kind = "register" ->
            Respond(r, 500, "Error del servidor al registrar usuario.", <<>>, err)
      [] r.kind = "login" ->
            Respond(r, 500, "Error del servidor al iniciar sesión.", <<>>, err)
      [] r.kind = "admin" ->
            Respond(r, 500, "Error del servidor al actualizar membresía.", <<>>, err)
      [] r.kind = "update" ->
            Respond(r, 0, "", <<>>, err)
      [] r.kind = "content" /\ r.pc \in {"findData", "findHdr"} ->
            Respond(r, 403, "Token inválido o expirado.", <<>>, err)
      [] r.sheetName = EBOOKS_SHEET_NAME ->
            Respond(r, 500, "Error del servidor al obtener ebooks.", <<>>, err)
      [] r.sheetName = CLASSES_SHEET_NAME ->
            Respond(r, 500, "Error del servidor al obtener clases.", <<>>, err)
      [] OTHER ->
            Respond(r, 500, "Error del servidor al obtener planes nutricionales.", <<>>, err)

(***************************************************************************)
(* Arrival of requests.  A request takes the lowest free slot (the slots   *)
(* are interchangeable).  A request answered before its first spreadsheet  *)
(* call never occupies a slot.                                             *)
(***************************************************************************)
DataRows(grid) == {k \in 2 .. Len(grid) : Len(grid[k]) > 0}
UserIds == {users[i][1] : i \in DataRows(users)}

\* The step that leaves a request in state r at slot s.
Put(s, r) ==
    IF r.pc = "done"
    THEN req' = [req EXCEPT ![s] = NoRequest] /\ last' = r
    ELSE req' = [req EXCEPT ![s] = r] /\ last' = NoRequest

Arrive(s, r) ==
    /\ server = "listening"
    /\ Free(s) /\ \A t \in Slots : t < s => ~Free(t)
    /\ Put(s, [r EXCEPT !.before = users])
    /\ arrived' = arrived + 1
    /\ UNCHANGED <<users, content, sheets, server, tokens, upgraded, headerChecked,
                   authorizations, authFailed, clock>>

\* app.post('/api/auth/register'), up to the first spreadsheet call.
BeginRegister(s) ==
    \E email \in Emails \cup {""}, password \in RegisterPasswords :
        LET r == [NoRequest EXCEPT !.kind = "register", !.email = email,
                                   !.password = password]
        IN  Arrive(s, IF email = "" \/ password = ""
                      THEN Respond(r, 400, "Por favor, introduce email y contraseña.",
                                   <<>>, "")
                      ELSE [r EXCEPT !.pc = "hdrRead"])

\* app.post('/api/auth/login'), up to the first spreadsheet call.
BeginLogin(s) ==
    \E email \in Emails \cup {""}, password \in Passwords :
        LET r == [NoRequest EXCEPT !.kind = "login", !.email = email,
                                   !.password = password]
        IN  Arrive(s, IF email = "" \/ password = ""
                      THEN Respond(r, 400, "Por favor, introduce email y contraseña.",
                                   <<>>, "")
                      ELSE [r EXCEPT !.pc = "findData"])

\* authMiddleware, up to the first spreadsheet call.  The Authorization header
\* is absent ("none"), carries a token jwt.verify rejects ("bad": forged or
\* expired), or carries a token issued for a user id.
BeginContent(s) ==
    \E sheetName \in ContentSheets, token \in {"none", "bad"} \cup tokens :
        LET r == [NoRequest EXCEPT !.kind = "content", !.sheetName = sheetName,
                                   !.userId = token]
        IN  Arrive(s, CASE token = "none" ->
                             Respond(r, 401, "Acceso denegado. No se proporcionó token.",
                                     <<>>, "")
                        [] token = "bad" ->
                             Respond(r, 403, "Token inválido o expirado.", <<>>, "jwt")
                        [] OTHER -> [r EXCEPT !.pc = "findData"])

\* app.post('/api/admin/update-membership'), up to the first spreadsheet call.
BeginAdmin(s) ==
    \E userId \in UserIds \cup {"", "nobody"}, newMembership \in Memberships \cup {""} :
        LET r == [NoRequest EXCEPT !.kind = "admin", !.userId = userId,
                                   !.newMembership = newMembership]
        IN  Arrive(s, IF userId = "" \/ newMembership = ""
                      THEN Respond(r, 400, "Se requiere userId y newMembership.", <<>>, "")
                      ELSE [r EXCEPT !.pc = "findData"])

(***************************************************************************)
(* One step of a request: a spreadsheet call and the code up to the next.  *)
(***************************************************************************)
\* The steps that begin with a call of authenticateGoogleSheets: those of
\* getSheetData, appendSheetRow and updateSheetRowByIndex.
AuthCalls == {"findData", "hdrAppend", "append", "getContent", "updHdr"}

Step(s, r) ==
    /\ Put(s, r)
    /\ IF req[s].pc \in AuthCalls
       THEN /\ authorizations' = authenticateGoogleSheets(sheets, authorizations)
            /\ sheets' = TRUE
       ELSE UNCHANGED <<authorizations, sheets>>
    /\ UNCHANGED <<content, server, arrived, authFailed>>

\* The same, for the steps that read no time, write no membership and complete
\* no header check.
StepOnly(s, r) == Step(s, r) /\ UNCHANGED <<upgraded, headerChecked, clock>>

StoreCalls ==
    {"hdrRead", "hdrAppend", "hdrUpdate", "findData", "findHdr", "hdrRead2", "append",
     "getContent", "updHdr", "updRow", "updWrite"}

\* A spreadsheet call rejects (network, quota, credentials): nothing is written.
StoreFails(s) ==
    /\ req[s].pc \in StoreCalls
    /\ StepOnly(s, Catch(req[s], "store"))
    /\ UNCHANGED <<users, tokens>>

\* register: the read of row 1 and the choice of the header repair.
RegisterHeaderRead(s) ==
    /\ req[s].kind = "register" /\ req[s].pc = "hdrRead"
    /\ LET existingUsersDataRaw == valuesGetRow1(users)
           pc == IF Len(existingUsersDataRaw) = 0 THEN "hdrAppend"
                 ELSE IF existingUsersDataRaw[1] # usersHeader THEN "hdrUpdate"
                 ELSE "findData"
       IN  /\ Step(s, [req[s] EXCEPT !.pc = pc])
           /\ headerChecked' = (headerChecked \/ pc = "findData")
    /\ UNCHANGED <<users, tokens, upgraded, clock>>

\* register: appendSheetRow(USERS_SHEET_NAME, usersHeader).
RegisterHeaderAppend(s) ==
    /\ req[s].kind = "register" /\ req[s].pc = "hdrAppend"
    /\ users' = valuesAppend(users, usersHeader)
    /\ Step(s, [req[s] EXCEPT !.pc = "findData"])
    /\ headerChecked' = TRUE
    /\ UNCHANGED <<tokens, upgraded, clock>>

\* register: values.update of row 1 with usersHeader.
RegisterHeaderUpdate(s) ==
    /\ req[s].kind = "register" /\ req[s].pc = "hdrUpdate"
    /\ users' = valuesUpdate(users, 1, usersHeader)
    /\ Step(s, [req[s] EXCEPT !.pc = "findData"])
    /\ headerChecked' = TRUE
    /\ UNCHANGED <<tokens, upgraded, clock>>

\* findSheetRow: the call of getSheetData.
FindData(s) ==
    /\ req[s].pc = "findData"
    /\ StepOnly(s, [req[s] EXCEPT !.pc = "findHdr",
                              !.rows = getSheetData(valuesGetSheet(users)),
                              !.sawUpgrade = (req[s].kind = "content"
                                              /\ req[s].userId \in upgraded)])
    /\ UNCHANGED <<users, tokens>>

\* findSheetRow's second read and its result: data.values[0] throws a
\* TypeError when row 1 holds no value.
HeaderThrows == Row1Undefined(users)
Lookup(r, columnName, searchValue) ==
    findSheetRow(r.rows, valuesGetRow1(users)[1], columnName, searchValue)

\* r once findSheetRow has returned userFound (searched is history: it marks
\* the requests whose findSheetRow has returned).
Returned(r, userFound) ==
    [r EXCEPT !.userFound = userFound, !.searched = TRUE, !.rows = <<>>]

\* register: findSheetRow by email, then the hash, the id and the timestamp.
RegisterFind(s) ==
    /\ req[s].kind = "register" /\ req[s].pc = "findHdr"
    /\ IF HeaderThrows THEN StepOnly(s, Catch(req[s], "TypeError"))
       ELSE LET userFound == Lookup(req[s], "email", req[s].email)
            IN  IF userFound # <<>>
                THEN StepOnly(s, Respond(Returned(req[s], userFound), 400,
                                         "El email ya está registrado.", <<>>, ""))
                ELSE \E t \in Times :
                        /\ Step(s, [Returned(req[s], userFound) EXCEPT
                              !.pc = "hdrRead2",
                              !.userId = uuidv4(UserIds \cup tokens
                                                \cup {req[u].userId : u \in Slots}),
                              !.now = toISOString(t)])
                        /\ clock' = t
                        /\ UNCHANGED <<upgraded, headerChecked>>
    /\ UNCHANGED <<users, tokens>>

\* register: the read of the current header before the append.
RegisterHeaderRead2(s) ==
    /\ req[s].kind = "register" /\ req[s].pc = "hdrRead2"
    /\ IF HeaderThrows THEN StepOnly(s, Catch(req[s], "TypeError"))
       ELSE StepOnly(s, [req[s] EXCEPT !.pc = "append"])
    /\ UNCHANGED <<users, tokens>>

newRowOrdered(r) ==
    [i \in 1 .. Len(usersHeader) |->
        CASE usersHeader[i] = "userId" -> r.userId
          [] usersHeader[i] = "email" -> r.email
          [] usersHeader[i] = "passwordHash" -> bcryptHash(r.password)
          [] usersHeader[i] = "membership" -> "free"
          [] usersHeader[i] = "createdAt" -> r.now
          [] usersHeader[i] = "updatedAt" -> r.now
          [] OTHER -> ""]

\* register: the append of the user row, the token and the answer.
RegisterAppend(s) ==
    /\ req[s].kind = "register" /\ req[s].pc = "append"
    /\ users' = valuesAppend(users, newRowOrdered(req[s]))
    /\ tokens' = tokens \cup {req[s].userId}
    /\ StepOnly(s, Respond(req[s], 201, "Usuario registrado con éxito.",
                       <<[id |-> req[s].userId, email |-> req[s].email,
                          membership |-> "free"]>>, ""))

\* login: findSheetRow by email, bcrypt.compare, the token and the answer.
LoginFind(s) ==
    /\ req[s].kind = "login" /\ req[s].pc = "findHdr"
    /\ IF HeaderThrows
       THEN StepOnly(s, Catch(req[s], "TypeError")) /\ UNCHANGED tokens
       ELSE LET userFound == Lookup(req[s], "email", req[s].email)
                r == Returned(req[s], userFound)
            IN  IF userFound = <<>>
                THEN /\ StepOnly(s, Respond(r, 400, "Credenciales inválidas.", <<>>, ""))
                     /\ UNCHANGED tokens
                ELSE LET userRow == userFound[1].rowData
                     IN  IF Field(userRow, "passwordHash") = JsUndefined
                         THEN /\ StepOnly(s, Catch(r, "bcrypt"))
                              /\ UNCHANGED tokens
                         ELSE IF ~bcryptCompare(r.password, Field(userRow, "passwordHash"))
                         THEN /\ StepOnly(s, Respond(r, 400, "Credenciales inválidas.",
                                                     <<>>, ""))
                              /\ UNCHANGED tokens
                         ELSE /\ StepOnly(s, Respond(r, 200, "Inicio de sesión exitoso.",
                                        <<[id |-> Field(userRow, "userId"),
                                           email |-> Field(userRow, "email"),
                                           membership |-> Field(userRow, "membership")]>>,
                                        ""))
                              /\ tokens' = tokens \cup {Field(userRow, "userId")}
    /\ UNCHANGED users

\* authMiddleware: findSheetRow by the token's userId; req.user = rowData.
AuthFind(s) ==
    /\ req[s].kind = "content" /\ req[s].pc = "findHdr"
    /\ IF HeaderThrows THEN StepOnly(s, Catch(req[s], "TypeError"))
       ELSE LET userEntry == Lookup(req[s], "userId", req[s].userId)
            IN  IF userEntry = <<>>
                THEN StepOnly(s, Respond(Returned(req[s], userEntry), 404,
                                         "Usuario no encontrado.", <<>>, ""))
                ELSE StepOnly(s, [Returned(req[s], userEntry) EXCEPT !.pc = "getContent"])
    /\ UNCHANGED <<users, tokens>>

\* content routes: getFilteredContent(sheetName, req.user.membership), res.json.
ContentRead(s) ==
    /\ req[s].kind = "content" /\ req[s].pc = "getContent"
    /\ LET allContent == getSheetData(valuesGetSheet(content[req[s].sheetName]))
           userMembership == Field(req[s].userFound[1].rowData, "membership")
       IN  IF filterThrows(allContent, userMembership)
           THEN StepOnly(s, Catch(req[s], "TypeError"))
           ELSE StepOnly(s, Respond(req[s], 200, "",
                                getFilteredContent(allContent, userMembership), ""))
    /\ UNCHANGED <<users, tokens>>

\* Mutant: the patch carries the timestamp only.
newDataWithoutMembership(r) == << <<"updatedAt", r.now>> >>

newData(r) == << <<"membership", r.newMembership>>, <<"updatedAt", r.now>> >>

\* update-membership: findSheetRow by userId, then the timestamp.
AdminFind(s) ==
    /\ req[s].kind = "admin" /\ req[s].pc = "findHdr"
    /\ IF HeaderThrows THEN StepOnly(s, Catch(req[s], "TypeError"))
       ELSE LET userFound == Lookup(req[s], "userId", req[s].userId)
            IN  IF userFound = <<>>
                THEN StepOnly(s, Respond(Returned(req[s], userFound), 404,
                                         "Usuario no encontrado.", <<>>, ""))
                ELSE \E t \in Times :
                        /\ LET r == [Returned(req[s], userFound) EXCEPT
                                        !.rowIndex = userFound[1].rowIndex,
                                        !.now = toISOString(t)]
                           IN  Step(s, [r EXCEPT !.pc = "updHdr", !.patch = newData(r)])
                        /\ clock' = t
                        /\ UNCHANGED <<upgraded, headerChecked>>
    /\ UNCHANGED <<users, tokens>>

\* A call of updateSheetRowByIndex(USERS_SHEET_NAME, r.rowIndex, r.patch) is
\* running: the one of the update-membership route, or a call on its own.
Updating(r) == r.kind \in {"admin", "update"}

\* updateSheetRowByIndex: the read of the header.
UpdateHeaderRead(s) ==
    /\ Updating(req[s]) /\ req[s].pc = "updHdr"
    /\ IF HeaderThrows THEN StepOnly(s, Catch(req[s], "TypeError"))
       ELSE StepOnly(s, [req[s] EXCEPT !.pc = "updRow", !.header = valuesGetRow1(users)[1]])
    /\ UNCHANGED <<users, tokens>>

\* updateSheetRowByIndex: the read of the current row and the merge.
UpdateRowRead(s) ==
    /\ Updating(req[s]) /\ req[s].pc = "updRow"
    /\ LET header == req[s].header
           currentRow == currentRowOf(
               valuesGetRow(users, req[s].rowIndex, Len(header)), Len(header))
       IN  StepOnly(s, [req[s] EXCEPT !.pc = "updWrite", !.readRow = currentRow,
                       !.currentRow = applyNewData(header, currentRow, req[s].patch)])
    /\ UNCHANGED <<users, tokens>>

\* Mutant: the write merges the patch into the row as it is at the write.
UpdateWriteAtomic(s) ==
    /\ Updating(req[s]) /\ req[s].pc = "updWrite"
    /\ users' = valuesUpdate(users, req[s].rowIndex,
                 applyNewData(req[s].header,
                     currentRowOf(valuesGetRow(users, req[s].rowIndex, Len(req[s].header)),
                                  Len(req[s].header)),
                     req[s].patch))
    /\ LET r == [req[s] EXCEPT !.rowBeforeWrite =
                     IF req[s].rowIndex <= Len(users) THEN users[req[s].rowIndex] ELSE <<>>]
       IN  IF r.kind = "admin"
           THEN /\ Step(s, Respond(r, 200,
                           "Membresía del usuario " \o r.userId \o " actualizada a "
                               \o r.newMembership \o ".", <<>>, ""))
                /\ upgraded' = IF r.newMembership = "premium"
                               THEN upgraded \cup {r.userId}
                               ELSE upgraded \ {r.userId}
           ELSE /\ Step(s, Respond(r, 0, "", <<>>, ""))
                /\ UNCHANGED upgraded
    /\ UNCHANGED <<tokens, headerChecked, clock>>

\* updateSheetRowByIndex: the write of the row, and the route's answer.
UpdateWrite(s) ==
    /\ Updating(req[s]) /\ req[s].pc = "updWrite"
    /\ users' = valuesUpdate(users, req[s].rowIndex, req[s].currentRow)
    /\ LET r == [req[s] EXCEPT !.rowBeforeWrite =
                     IF req[s].rowIndex <= Len(users) THEN users[req[s].rowIndex] ELSE <<>>]
       IN  IF r.kind = "admin"
           THEN /\ Step(s, Respond(r, 200,
                           "Membresía del usuario " \o r.userId \o " actualizada a "
                               \o r.newMembership \o ".", <<>>, ""))
                /\ upgraded' = IF r.newMembership = "premium"
                               THEN upgraded \cup {r.userId}
                               ELSE upgraded \ {r.userId}
           ELSE /\ Step(s, Respond(r, 0, "", <<>>, ""))
                /\ UNCHANGED upgraded
    /\ UNCHANGED <<tokens, headerChecked, clock>>

Handler(s) ==
    \/ StoreFails(s)
    \/ RegisterHeaderRead(s) \/ RegisterHeaderAppend(s) \/ RegisterHeaderUpdate(s)
    \/ FindData(s)
    \/ RegisterFind(s) \/ RegisterHeaderRead2(s) \/ RegisterAppend(s)
    \/ LoginFind(s)
    \/ AuthFind(s) \/ ContentRead(s)
    \/ AdminFind(s) \/ UpdateHeaderRead(s) \/ UpdateRowRead(s) \/ UpdateWrite(s)

Startup == StartAuthorize \/ AuthorizeResolves \/ AuthorizeRejects

\* Requests arrive and run under any interleaving.
Next ==
    \/ Startup
    \/ \E s \in Slots :
          /\ arrived < MaxRequests
          /\ (BeginRegister(s) \/ BeginLogin(s) \/ BeginContent(s) \/ BeginAdmin(s))
    \/ \E s \in Slots : Handler(s)

Spec == Init /\ [][Next]_vars

\* Requests run one at a time: a request arrives when none is in flight.
Quiet == \A s \in Slots : Free(s)

NextSeq ==
    \/ Startup
    \/ \E s \in Slots :
          /\ arrived < MaxSeqRequests /\ Quiet
          /\ (BeginRegister(s) \/ BeginLogin(s) \/ BeginContent(s) \/ BeginAdmin(s))
    \/ \E s \in Slots : Handler(s)

SpecSeq == Init /\ [][NextSeq]_vars

(***************************************************************************)
(* updateSheetRowByIndex on its own: calls with any row index and any      *)
(* patch, under any interleaving of their three spreadsheet calls.         *)
(***************************************************************************)
UpdateRowIndexes == {2, 3}

UpdatePatches ==
    { << <<"membership", "premium">> >>,
      << <<"updatedAt", "t1">> >>,
      << <<"email", "c@x.com">> >>,
      << <<"membership", "premium">>, <<"updatedAt", "t1">> >>,
      << <<"phone", "555">> >> }

\* A caller invokes updateSheetRowByIndex(USERS_SHEET_NAME, rowIndex, newData).
BeginUpdate(s) ==
    \E rowIndex \in UpdateRowIndexes, patch \in UpdatePatches :
        Arrive(s, [NoRequest EXCEPT !.kind = "update", !.pc = "updHdr",
                                    !.rowIndex = rowIndex, !.patch = patch])

NextUpdate ==
    \/ Startup
    \/ \E s \in Slots : arrived < MaxUpdateCalls /\ BeginUpdate(s)
    \/ \E s \in Slots : UpdateHeaderRead(s) \/ UpdateRowRead(s) \/ UpdateWrite(s)

SpecUpdate == Init /\ [][NextUpdate]_vars

(***************************************************************************)
(* Vocabulary of the properties.                                           *)
(***************************************************************************)
Answered(kind, status) == last.kind = kind /\ last.pc = "done" /\ last.status = status

\* req.user.membership of the content request just answered.
LastMembership == Field(last.userFound[1].rowData, "membership")

\* The records of the content sheet the request just answered asked for.
LastContent == getSheetData(valuesGetSheet(content[last.sheetName]))

\* A premium record that carries a payload URL.
Leaks(item) ==
    /\ isPremiumItem(item)
    /\ ~Falsy(Field(item, "fileURL")) \/ ~Falsy(Field(item, "videoURL"))

(***************************************************************************)
(* C1: for a user whose membership is not 'premium', getFilteredContent    *)
(* returns one record per data row of the sheet, in order: a record        *)
(* flagged premium is kept with fileURL and videoURL null and its other    *)
(* fields unchanged, every other record is returned as stored.             *)
(***************************************************************************)
C1_RedactedNotDropped ==
    (Answered("content", 200) /\ LastMembership # "premium") =>
        /\ Len(last.body) = Len(LastContent)
        /\ \A i \in 1 .. Len(LastContent) :
              i <= Len(last.body) =>
                 last.body[i] = IF isPremiumItem(LastContent[i])
                                THEN redact(LastContent[i])
                                ELSE LastContent[i]

C3_PremiumUntilNextWrite ==
    (Answered("content", 200) /\ last.sawUpgrade) =>
        toLowerCase(LastMembership) = "premium" /\ last.body = LastContent

\* After the upgrade, a content request is answered with a premium record
\* and its stored URL.
C3_Witness ==
    /\ Answered("content", 200)
    /\ last.sawUpgrade
    /\ \E i \in 1 .. Len(last.body) : Leaks(last.body[i])

(***************************************************************************)
(* C4: with one request at a time, a registration for an email that a row  *)
(* of the Users sheet already holds is answered 400 'El email ya está      *)
(* registrado.' (500 when a spreadsheet call of the request failed) and    *)
(* leaves the number of rows and every data row as they were; and no two   *)
(* user rows ever share an email.                                          *)
(***************************************************************************)
EmailOf(row) ==
    IF Len(row) >= indexOf(usersHeader, "email")
    THEN row[indexOf(usersHeader, "email")] ELSE ""

EmailsOf(grid) == {EmailOf(grid[k]) : k \in DataRows(grid)}

NoSharedEmail(grid) ==
    \A i, j \in DataRows(grid) : EmailOf(grid[i]) = EmailOf(grid[j]) => i = j

C4_TakenEmailRejected ==
    /\ (last.kind = "register" /\ last.pc = "done"
            /\ last.email \in EmailsOf(last.before)) =>
          /\ \/ last.status = 400 /\ last.message = "El email ya está registrado."
             \/ last.status = 500 /\ last.err = "store"
          /\ Len(users) = Len(last.before)
          /\ \A k \in 2 .. Len(users) : users[k] = last.before[k]
    /\ NoSharedEmail(users)

\* A registration for a taken email has just been refused.
C4_Witness ==
    /\ Answered("register", 400)
    /\ last.email \in EmailsOf(last.before)
    /\ last.message = "El email ya está registrado."

(***************************************************************************)
(* C5: nothing guards the append of a registration.  A registration whose  *)
(* findSheetRow returned null appends its row and answers 201 whatever the *)
(* sheet holds by then, so two registrations for one email that overlap    *)
(* both append: the row of every registration answered 201 is the last row *)
(* of the sheet, also when another row holds the same email.               *)
(***************************************************************************)
C5_AppendUnconditional ==
    Answered("register", 201) => users[Len(users)] = newRowOrdered(last)

\* Two overlapping registrations for an email the sheet did not hold have
\* both appended and both been answered 201.
C5_Witness ==
    /\ Answered("register", 201)
    /\ last.email \notin EmailsOf(last.before)
    /\ \E i, j \in DataRows(users) :
          /\ i < j
          /\ EmailOf(users[i]) = last.email /\ EmailOf(users[j]) = last.email
          /\ {users[i][1], users[j][1]} \subseteq tokens
          /\ i > Len(last.before)

(***************************************************************************)
(* C6: for a sheet with a header, findSheetRow(sheet, column, value)       *)
(* returns the first data row whose column value equals value, with        *)
(* rowIndex = k + 2 for its offset k among the data rows, which is the     *)
(* index of the physical row the record was decoded from; it returns null  *)
(* when no data row matches.  (Requests run one at a time: the sheet is as *)
(* findSheetRow read it until the request writes.)                         *)
(***************************************************************************)
SearchColumn(r) == IF r.kind \in {"register", "login"} THEN "email" ELSE "userId"
SearchValue(r) == IF r.kind \in {"register", "login"} THEN r.email ELSE r.userId

\* Offset among the data rows of the physical row at index: row 1 is the header.
Offset(index) == Cardinality(2 .. (index - 1))

FoundRight(r, grid) ==
    LET matches == {k \in 2 .. Len(grid) :
                       Field(rowObject(grid[1], grid[k]), SearchColumn(r)) = SearchValue(r)}
    IN  IF matches = {} THEN r.userFound = <<>>
        ELSE /\ r.userFound # <<>>
             /\ LET rowIndex == r.userFound[1].rowIndex
                IN  /\ rowIndex \in matches
                    /\ \A k \in matches : rowIndex <= k
                    /\ rowIndex = Offset(rowIndex) + 2
                    /\ r.userFound[1].rowData = rowObject(grid[1], grid[rowIndex])

\* The request has written to the sheet after its findSheetRow returned.
WroteSince(r) ==
    \/ r.kind = "register" /\ r.status = 201
    \/ r.kind = "admin" /\ r.status = 200

Cell(row, j) == IF j <= Len(row) THEN row[j] ELSE ""
RowAt(grid, i) == IF i \in 1 .. Len(grid) THEN grid[i] ELSE <<>>

\* The value the patch of request r gives column j of header, if any.
Patched(r, header, j) ==
    {newData(r)[n][2] : n \in {m \in 1 .. Len(newData(r)) :
                                  indexOf(header, newData(r)[m][1]) = j}}

C7_UpdateTouchesPatchedColumnsOnly ==
    Answered("admin", 200) =>
        LET rowIndex == last.userFound[1].rowIndex
            header == last.before[1]
            width == Max(Len(header), Max(Len(users[rowIndex]), Len(last.before[rowIndex])))
        IN  /\ Len(users) = Len(last.before)
            /\ \A i \in 1 .. Len(users) : i # rowIndex => users[i] = last.before[i]
            /\ \A j \in 1 .. width :
                  IF Patched(last, header, j) = {}
                  THEN Cell(users[rowIndex], j) = Cell(last.before[rowIndex], j)
                  ELSE Patched(last, header, j) = {Cell(users[rowIndex], j)}

\* An update of a stored row that was shorter than the header.
C7_Witness ==
    /\ Answered("admin", 200)
    /\ Len(last.before[last.userFound[1].rowIndex]) < Len(last.before[1])
    /\ users # last.before

C9_StoreFailureAnswered500 ==
    last.pc = "done" =>
        /\ last.err \in {"store", "TypeError"} => last.status = 500
        /\ last.status = 403 => last.err = "jwt"

(***************************************************************************)
(* C10: a login whose email matches no user row gets the same response as  *)
(* a login with an existing email and a wrong password, status 400 with    *)
(* message 'Credenciales inválidas.', in every state of the Users sheet,   *)
(* a sheet with only a header and an entirely empty sheet included.  (No   *)
(* spreadsheet call rejects and no request interferes.)                    *)
(***************************************************************************)
HashOf(row) == Cell(row, indexOf(usersHeader, "passwordHash"))

UnknownEmail(r, grid) == r.email \notin EmailsOf(grid)

WrongPassword(r, grid) ==
    /\ r.email \in EmailsOf(grid)
    /\ \A k \in DataRows(grid) :
          EmailOf(grid[k]) = r.email => ~bcryptCompare(r.password, HashOf(grid[k]))

C10_SameAnswerForBadCredentials ==
    (/\ last.kind = "login" /\ last.pc = "done" /\ last.err # "store"
     /\ last.email # "" /\ last.password # ""
     /\ UnknownEmail(last, users) \/ WrongPassword(last, users)) =>
        last.status = 400 /\ last.message = "Credenciales inválidas."

(***************************************************************************)
(* C11: the spreadsheet client is authorized at most once per process      *)
(* under every interleaving of requests: the handle goes unset ->          *)
(* authorizing -> set exactly once, no request handler runs before the     *)
(* handle is set, every later call of authenticateGoogleSheets returns     *)
(* without authorizing again, and no request uses the handle while unset.  *)
(***************************************************************************)
C11_AuthorizedOnce ==
    /\ authorizations <= 1
    /\ server = "starting" => ~sheets /\ authorizations = 0
    /\ server = "authorizing" => ~sheets /\ authorizations = 1
    /\ server = "listening" => sheets /\ authorizations = 1
    /\ \A s \in Slots : ~Free(s) => sheets /\ server = "listening"
    /\ last.pc = "done" => sheets /\ server = "listening"

\* Two handlers are past a call of authenticateGoogleSheets made after start-up.
C11_Witness ==
    /\ authorizations = 1 /\ sheets
    /\ \A s \in Slots : req[s].pc = "findHdr"

(***************************************************************************)
(* C12: if the authorization at start-up fails, the process exits and the  *)
(* server never listens: no request is served in such a run.               *)
(***************************************************************************)
C12_NoServiceAfterFailedStartup ==
    authFailed =>
        /\ server = "exited"
        /\ arrived = 0 /\ Quiet /\ last = NoRequest
        /\ ~ENABLED Next

\* The start-up authorization has been rejected.
C12_Witness == authFailed /\ server = "exited" /\ ~sheets

(***************************************************************************)
(* C13: updateSheetRowByIndex is not atomic.  Its write stores the full    *)
(* row it read, with the patch applied: every cell it read and does not    *)
(* patch is written back as read, whatever another call has written to     *)
(* the row since the read.  So a lost update is reachable: a cell changed  *)
(* by a first call, in a column the second call does not patch, is         *)
(* reverted by the second call's write to the value it had before.         *)
(***************************************************************************)
Unpatched(r, j) == \A n \in 1 .. Len(r.patch) : indexOf(r.header, r.patch[n][1]) # j

C13_WriteStoresRowAsRead ==
    (last.kind = "update" /\ last.pc = "done" /\ last.err = "") =>
        \A j \in 1 .. Len(last.readRow) :
            Unpatched(last, j) => Cell(users[last.rowIndex], j) = last.readRow[j]

\* A lost update: between the read and the write of the call just returned,
\* another call changed a cell that this call does not patch; the write has
\* put the cell back to the value read.
C13_Witness ==
    /\ last.kind = "update" /\ last.pc = "done" /\ last.err = ""
    /\ \E j \in 1 .. Len(last.readRow) :
          /\ Unpatched(last, j)
          /\ Cell(last.rowBeforeWrite, j) # last.readRow[j]
          /\ Cell(users[last.rowIndex], j) = last.readRow[j]
          /\ Cell(RowAt(last.before, last.rowIndex), j) = last.readRow[j]

(***************************************************************************)
(* C14: in every registration, under any interleaving with registrations   *)
(* and membership updates, the header check has completed before the user  *)
(* row is appended, and when the row is appended row 1 of the Users sheet  *)
(* equals usersHeader, so that the values appended sit under userId,       *)
(* email, passwordHash, membership, createdAt, updatedAt in this order.    *)
(***************************************************************************)
C14_HeaderInPlaceAtAppend ==
    /\ \A s \in Slots :
          (req[s].kind = "register" /\ req[s].pc = "append") =>
              headerChecked /\ Len(users) >= 1 /\ users[1] = usersHeader
    /\ Answered("register", 201) =>
          /\ users[1] = usersHeader
          /\ \A j \in 1 .. Len(usersHeader) :
                Cell(users[Len(users)], j) = Cell(newRowOrdered(last), j)

(***************************************************************************)
(* C15: after any sequence of register and update-membership requests the  *)
(* membership cell of every user row is 'free' or 'premium'.               *)
(***************************************************************************)
MembershipOf(row) == Cell(row, indexOf(usersHeader, "membership"))

C15_MembershipEnumerated ==
    \A k \in DataRows(users) : MembershipOf(users[k]) \in {"free", "premium"}

(***************************************************************************)
(* C16: under any sequence and interleaving of register, login, content    *)
(* and update-membership requests, every user row once appended stays at   *)
(* its physical row index with userId, email, passwordHash and createdAt   *)
(* unchanged; only the membership and updatedAt cells of the row of the    *)
(* user an update targets are modified; the number of user rows never      *)
(* decreases.                                                              *)
(***************************************************************************)
MutableColumns == {indexOf(usersHeader, "membership"), indexOf(usersHeader, "updatedAt")}

\* Some update-membership request for the user of row k is at its write.
Targeted(k) ==
    \E s \in Slots :
        /\ req[s].kind = "admin" /\ req[s].pc = "updWrite"
        /\ req[s].rowIndex = k
        /\ Cell(users[k], indexOf(usersHeader, "userId")) = req[s].userId

C16_UserRowsStable ==
    [][/\ Len(users') >= Len(users)
       /\ \A k \in 2 .. Len(users) :
             /\ \A j \in 1 .. Max(Len(users[k]), Len(users'[k])) :
                   j \notin MutableColumns => Cell(users'[k], j) = Cell(users[k], j)
             /\ users'[k] # users[k] => Targeted(k)]_vars

\* A membership update has rewritten the row of a user who registered in this run.
C16_Witness ==
    /\ Answered("admin", 200)
    /\ last.rowIndex > Len(last.before) \/ EmailOf(users[last.rowIndex]) = "b@x.com"
    /\ users[last.rowIndex] # last.rowBeforeWrite
    /\ Len(users[last.rowIndex]) = Len(usersHeader)

(***************************************************************************)
(* C17: findSheetRow never throws because of the sheet's shape: when the   *)
(* column searched is absent from the header, or the sheet has no header   *)
(* row at all, it returns null and the calling route answers with its      *)
(* not-found outcome, not with an error outcome.  (A TypeError answered    *)
(* for a request whose findSheetRow has not returned was thrown by it.)    *)
(***************************************************************************)
C17_LookupNeverThrows ==
    (last.pc = "done" /\ last.err = "TypeError") => last.searched

(***************************************************************************)
(* C18: under any interleaving of registrations, several first             *)
(* registrations racing on an entirely empty Users sheet included, the     *)
(* expected header occurs only as row 1: no data row equals the header,    *)
(* and no decoded user record has userId 'userId' and email 'email'.       *)
(***************************************************************************)
C18_HeaderOnlyInRowOne ==
    /\ \A k \in 2 .. Len(users) : users[k] # usersHeader
    /\ \A i \in 1 .. Len(getSheetData(valuesGetSheet(users))) :
          LET record == getSheetData(valuesGetSheet(users))[i]
          IN  ~(Field(record, "userId") = "userId" /\ Field(record, "email") = "email")

=============================================================================
